---- MODULE Spec2Model ----
(***************************************************************************)
(* help-me-ai: the run of the Ink CLI (src/src/index.tsx) from dependency  *)
(* scan to installation, with the matcher, the downloader, the installer   *)
(* and the selection widget it drives.                                     *)
(*                                                                         *)
(* Paths are sequences of segments, version strings are sequences of       *)
(* one-character strings, the filesystem is a set of directories and a     *)
(* function from file paths to contents.                                   *)
(***************************************************************************)
EXTENDS Integers, Sequences, FiniteSets, TLC

(* ---------------- bounds of the model ---------------- *)

\* longest registry index (number of skill records) the run is given
MaxSkills == 2

\* Enter presses handled by one mounted selection widget
MaxSubmits == 2

\* calls of installSkill made in a row on one filesystem
MaxInstalls == 2

(* ---------------- generic helpers ---------------- *)

Range(s) == {s[n] : n \in DOMAIN s}

SeqsUpTo(S, n) == UNION {[1..m -> S] : m \in 0..n}

Min2(a, b) == IF a < b THEN a ELSE b

Max2(a, b) == IF a > b THEN a ELSE b

(* ---------------- semver (the two functions matcher.ts imports) -------- *)

Digits == {"0", "1", "2", "3", "4", "5", "6", "7", "8", "9"}

DigitVal(c) ==
  CASE c = "0" -> 0 [] c = "1" -> 1 [] c = "2" -> 2 [] c = "3" -> 3
    [] c = "4" -> 4 [] c = "5" -> 5 [] c = "6" -> 6 [] c = "7" -> 7
    [] c = "8" -> 8 [] c = "9" -> 9

\* end (exclusive) of the maximal run of digits of s that starts at i
RECURSIVE DigitsEnd(_, _)
DigitsEnd(s, i) ==
  IF i <= Len(s) /\ s[i] \in Digits THEN DigitsEnd(s, i + 1) ELSE i

RECURSIVE NumVal(_, _, _)
NumVal(s, i, j) ==
  IF i >= j THEN 0 ELSE NumVal(s, i, j - 1) * 10 + DigitVal(s[j - 1])

\* position of the first digit of s at or after i, 0 when there is none
RECURSIVE FirstDigit(_, _)
FirstDigit(s, i) ==
  IF i > Len(s) THEN 0
  ELSE IF s[i] \in Digits THEN i ELSE FirstDigit(s, i + 1)

NoVersion == [valid |-> FALSE]

SemVer(ma, mi, pa) == [valid |-> TRUE, major |-> ma, minor |-> mi, patch |-> pa]

\* semver.coerce: the first run of digits is the major, up to two following
\* ".digits" groups are minor and patch, missing ones are 0; null when the
\* string has no digit
coerce(version) ==
  LET a == FirstDigit(version, 1) IN
  IF a = 0 THEN NoVersion
  ELSE
    LET ae == DigitsEnd(version, a)
        hasMinor == /\ ae + 1 <= Len(version)
                    /\ version[ae] = "."
                    /\ version[ae + 1] \in Digits
        be == IF hasMinor THEN DigitsEnd(version, ae + 1) ELSE ae
        hasPatch == /\ hasMinor
                    /\ be + 1 <= Len(version)
                    /\ version[be] = "."
                    /\ version[be + 1] \in Digits
        ce == IF hasPatch THEN DigitsEnd(version, be + 1) ELSE be
    IN SemVer(NumVal(version, a, ae),
              IF hasMinor THEN NumVal(version, ae + 1, be) ELSE 0,
              IF hasPatch THEN NumVal(version, be + 1, ce) ELSE 0)

\* new SemVer(string): strict MAJOR.MINOR.PATCH with an optional leading "v"
parse(version) ==
  LET a == IF Len(version) >= 1 /\ version[1] = "v" THEN 2 ELSE 1
      ae == DigitsEnd(version, a)
      be == DigitsEnd(version, ae + 1)
      ce == DigitsEnd(version, be + 1)
  IN IF /\ ae > a
        /\ ae <= Len(version) /\ version[ae] = "." /\ be > ae + 1
        /\ be <= Len(version) /\ version[be] = "." /\ ce > be + 1
        /\ ce = Len(version) + 1
     THEN SemVer(NumVal(version, a, ae), NumVal(version, ae + 1, be),
                 NumVal(version, be + 1, ce))
     ELSE NoVersion

\* the canonical string of a parsed version (SemVer.version)
RECURSIVE NumStr(_)
NumStr(n) ==
  LET d == CHOOSE c \in Digits : DigitVal(c) = n % 10
  IN IF n < 10 THEN <<d>> ELSE NumStr(n \div 10) \o <<d>>

format(v) == NumStr(v.major) \o <<".">> \o NumStr(v.minor) \o <<".">> \o NumStr(v.patch)

compare(a, b) ==
  IF a.major # b.major THEN (IF a.major < b.major THEN -1 ELSE 1)
  ELSE IF a.minor # b.minor THEN (IF a.minor < b.minor THEN -1 ELSE 1)
  ELSE IF a.patch # b.patch THEN (IF a.patch < b.patch THEN -1 ELSE 1)
  ELSE 0

\* the range strings of the registries of the model, as semver's Range parses
\* them: a conjunction of comparators, or invalid
StarRange == "*"

RangeGte5 == ">=5.0.0"

RangeV4 == ">=4.0.0 <5.0.0"

RangeGte3 == ">=3.0.0"

RangeBad == "not a range"

Comparators(range) ==
  CASE range = RangeGte5 ->
         [valid |-> TRUE, set |-> {[op |-> ">=", v |-> SemVer(5, 0, 0)]}]
    [] range = RangeV4 ->
         [valid |-> TRUE, set |-> {[op |-> ">=", v |-> SemVer(4, 0, 0)],
                                   [op |-> "<", v |-> SemVer(5, 0, 0)]}]
    [] range = RangeGte3 ->
         [valid |-> TRUE, set |-> {[op |-> ">=", v |-> SemVer(3, 0, 0)]}]
    [] range = StarRange -> [valid |-> TRUE, set |-> {}]
    [] OTHER -> [valid |-> FALSE, set |-> {}]

\* test with every upper bound taken as met
testLowerBoundsOnly(c, v) ==
  CASE c.op = ">=" -> compare(v, c.v) >= 0
    [] c.op = ">" -> compare(v, c.v) > 0
    [] OTHER -> TRUE

test(c, v) ==
  CASE c.op = ">=" -> compare(v, c.v) >= 0
    [] c.op = "<" -> compare(v, c.v) < 0
    [] c.op = ">" -> compare(v, c.v) > 0
    [] c.op = "<=" -> compare(v, c.v) <= 0
    [] OTHER -> compare(v, c.v) = 0

\* semver.satisfies(version, range): false, never an exception, when the
\* range or the version does not parse
satisfies(version, range) ==
  \E r \in {Comparators(range)}, v \in {parse(version)} :
    /\ r.valid
    /\ v.valid
    /\ \A c \in r.set : test(c, v)

(* ---------------- matcher.ts ---------------- *)

null == [null |-> TRUE]

\* versionMatches without the attempt on the coerced version
versionMatchesRawOnly(version, range) ==
  IF range = "*" THEN TRUE ELSE satisfies(version, range)

\* versionMatches with the wildcard left to the range test of a coerced
\* version
versionMatchesCoerceFirst(version, range) ==
  \E coercedVersion \in {coerce(version)} :
    /\ coercedVersion.valid
    /\ range = "*" \/ satisfies(format(coercedVersion), range)

\* versionMatches taking a version that does not coerce as one in range
versionMatchesUncoercedPasses(version, range) ==
  IF range = "*" THEN TRUE
  ELSE \E coercedVersion \in {coerce(version)} :
         \/ ~coercedVersion.valid
         \/ satisfies(format(coercedVersion), range)
         \/ satisfies(version, range)

\* SkillMatcher.versionMatches
versionMatches(version, range) ==
  IF range = "*" THEN TRUE
  ELSE IF \E coercedVersion \in {coerce(version)} :
            coercedVersion.valid /\ satisfies(format(coercedVersion), range)
    THEN TRUE
  ELSE IF satisfies(version, range) THEN TRUE
  ELSE FALSE

\* firstDependency with the version left unchecked
RECURSIVE firstDependencyByName(_, _)
firstDependencyByName(matchingLib, dependencies) ==
  IF dependencies = <<>> THEN null
  ELSE IF Head(dependencies).name = matchingLib.name THEN Head(dependencies)
  ELSE firstDependencyByName(matchingLib, Tail(dependencies))

\* the inner loop of findMatchingDependency: the first dependency, in list
\* order, with the library's name and a matching version
RECURSIVE firstDependency(_, _)
firstDependency(matchingLib, dependencies) ==
  IF dependencies = <<>> THEN null
  ELSE
    LET dep == Head(dependencies) IN
    IF dep.name = matchingLib.name
       /\ versionMatches(dep.version, matchingLib.versionRange)
    THEN dep
    ELSE firstDependency(matchingLib, Tail(dependencies))

\* the outer loop of findMatchingDependency, over skill.matchingLibraries
RECURSIVE findInLibraries(_, _)
findInLibraries(matchingLibraries, dependencies) ==
  IF matchingLibraries = <<>> THEN null
  ELSE
    LET dep == firstDependency(Head(matchingLibraries), dependencies) IN
    IF dep # null THEN dep
    ELSE findInLibraries(Tail(matchingLibraries), dependencies)

\* for (const matchingLib of skill.matchingLibraries) throws a TypeError when
\* the record has no matchingLibraries: the Skill of types.ts has library and
\* versionRange instead
notIterable(skill) == "matchingLibraries" \notin DOMAIN skill

TypeErrorMessage == "skill.matchingLibraries is not iterable"

\* SkillMatcher.findMatchingDependency, when it does not throw
findMatchingDependency(skill, dependencies) ==
  findInLibraries(skill.matchingLibraries, dependencies)

\* matchSkills throws: it calls findMatchingDependency for every skill of
\* the index and catches nothing
matchSkillsThrows(skills) == \E n \in DOMAIN skills : notIterable(skills[n])

\* matchSkills with every match put before the earlier ones
RECURSIVE matchSkillsReversed(_, _)
matchSkillsReversed(dependencies, skills) ==
  IF skills = <<>> THEN <<>>
  ELSE
    LET dependency == findMatchingDependency(Head(skills), dependencies)
        rest == matchSkillsReversed(dependencies, Tail(skills))
    IN IF dependency # null
       THEN rest \o <<[skill |-> Head(skills), dependency |-> dependency]>>
       ELSE rest

\* SkillMatcher.matchSkills, over index.skills, when it does not throw
RECURSIVE matchSkills(_, _)
matchSkills(dependencies, skills) ==
  IF skills = <<>> THEN <<>>
  ELSE
    LET skill == Head(skills)
        dependency == findMatchingDependency(skill, dependencies)
        rest == matchSkills(dependencies, Tail(skills))
    IN IF dependency # null
       THEN <<[skill |-> skill, dependency |-> dependency]>> \o rest
       ELSE rest

(* ---------------- node:path and node:fs ---------------- *)

\* one segment of path.normalize: "." is dropped, ".." removes the segment
\* before it (the root has no parent)
normalizeSegment(done, segment) ==
  IF segment = "." THEN done
  ELSE IF segment = ".." THEN SubSeq(done, 1, Len(done) - 1)
  ELSE Append(done, segment)

\* path.normalize on the segments of a path
RECURSIVE normalize(_, _)
normalize(done, todo) ==
  IF todo = <<>> THEN done
  ELSE normalize(normalizeSegment(done, Head(todo)), Tail(todo))

\* path.join
join(a, b) == normalize(<<>>, a \o b)

Prefixes(path) == {SubSeq(path, 1, n) : n \in 1..Len(path)}

\* fs.access(path) succeeds
exists(fs, path) == path \in fs.dirs \/ path \in DOMAIN fs.files

\* canMkdir without the recursive option: the directory must not exist
canMkdirExclusive(fs, path) ==
  path \notin fs.dirs /\ Prefixes(path) \cap DOMAIN fs.files = {}

\* mkdir(path, {recursive: true}) cannot succeed through an existing file
canMkdir(fs, path) == Prefixes(path) \cap DOMAIN fs.files = {}

mkdir(fs, path) == [fs EXCEPT !.dirs = @ \cup Prefixes(path)]

\* writeFile(path) needs the parent directory and no directory at path
canWriteFile(fs, path) ==
  /\ path \notin fs.dirs
  /\ Len(path) > 1 => SubSeq(path, 1, Len(path) - 1) \in fs.dirs

writeFile(fs, path, content) ==
  [fs EXCEPT !.files = (path :> content) @@ @]

(* ---------------- the inputs of a run ---------------- *)

\* options.directory
ProjectDirectory == <<"proj">>

V520 == <<"5", ".", "2", ".", "0">>

V410 == <<"4", ".", "1", ".", "0">>

V321 == <<"3", ".", "2", ".", "1">>

Rq520 == [name |-> "rq", version |-> V520, isDev |-> FALSE]

Rq410 == [name |-> "rq", version |-> V410, isDev |-> FALSE]

Zod321 == [name |-> "zod", version |-> V321, isDev |-> FALSE]

\* the library of Rq520 listed under devDependencies too, at another version
Rq410Dev == [name |-> "rq", version |-> V410, isDev |-> TRUE]

\* version strings no version can be read from; normalizeVersion returns
\* them as they are
VEmpty == <<>>

VLatest == <<"l", "a", "t", "e", "s", "t">>

ZodEmpty == [name |-> "zod", version |-> VEmpty, isDev |-> FALSE]

ZodLatest == [name |-> "zod", version |-> VLatest, isDev |-> FALSE]

RqLatest == [name |-> "rq", version |-> VLatest, isDev |-> FALSE]

\* the characters normalizeVersion removes from the front of a declaration
RangePrefixChars == {"^", "~", ">", "=", "<"}

RECURSIVE stripLeading(_, _)
stripLeading(s, chars) ==
  IF s # <<>> /\ Head(s) \in chars THEN stripLeading(Tail(s), chars) ELSE s

RECURSIVE stripTrailing(_, _)
stripTrailing(s, chars) ==
  IF s # <<>> /\ s[Len(s)] \in chars
  THEN stripTrailing(SubSeq(s, 1, Len(s) - 1), chars)
  ELSE s

\* String.prototype.trim
trim(s) == stripTrailing(stripLeading(s, {" "}), {" "})

\* NpmParser.normalizeVersion
normalizeVersion(version) ==
  LET cleaned == trim(stripLeading(version, RangePrefixChars))
      coerced == coerce(cleaned)
  IN IF coerced.valid THEN format(coerced) ELSE cleaned

\* the entries of one section of package.json as Dependency records
sectionEntries(entries, isDev) ==
  [n \in DOMAIN entries |->
     [name |-> entries[n].name,
      version |-> normalizeVersion(entries[n].version),
      isDev |-> isDev]]

\* NpmParser.parse, from the parsed package.json on: the dependencies in
\* their order, then the devDependencies in theirs
npmParse(packageJson) ==
  sectionEntries(packageJson.dependencies, FALSE)
    \o sectionEntries(packageJson.devDependencies, TRUE)

\* declarations of package.json
Caret520 == <<"^">> \o V520

Tilde410 == <<"~">> \o V410

Caret321 == <<"^">> \o V321

GteSpace520 == <<">", "=", " ">> \o V520

Declares(name, version) == [name |-> name, version |-> version]

\* the package.json files of the model, an absent section being an empty one
Manifests ==
  { [dependencies |-> <<>>, devDependencies |-> <<>>],
    [dependencies |-> <<Declares("rq", Caret520)>>, devDependencies |-> <<>>],
    [dependencies |-> <<Declares("rq", Tilde410)>>, devDependencies |-> <<>>],
    [dependencies |-> <<Declares("zod", Caret321), Declares("rq", GteSpace520)>>,
     devDependencies |-> <<>>],
    [dependencies |-> <<Declares("rq", V520), Declares("zod", Caret321)>>,
     devDependencies |-> <<>>],
    [dependencies |-> <<Declares("rq", VLatest), Declares("zod", VEmpty)>>,
     devDependencies |-> <<>>],
    [dependencies |-> <<Declares("zod", VLatest), Declares("rq", V520)>>,
     devDependencies |-> <<>>],
    [dependencies |-> <<Declares("rq", Caret520)>>,
     devDependencies |-> <<Declares("rq", Tilde410)>>] }

\* the dependency lists NpmParser.parse returns for the package.json files of
\* the model, evaluated once
DepLists == {npmParse(packageJson) : packageJson \in Manifests}

\* a skill record as types.ts declares it and STRUCTURE.md documents it
RqDeclared ==
  [id |-> <<"rqd">>, name |-> "RQ declared", path |-> "skills/rqd.md",
   library |-> "rq", versionRange |-> RangeGte5]

\* the skill records a registry index of the model holds: records with the
\* matchingLibraries matcher.ts reads, one of which reuses the id of the
\* first (the loader does not enforce unique ids), and the declared record
SkillPool ==
  {RqDeclared} \cup
  { [id |-> <<"rq5">>, name |-> "RQ5", path |-> "skills/rq5.md",
     matchingLibraries |-> <<[name |-> "rq", versionRange |-> RangeGte5]>>],
    [id |-> <<"rq4">>, name |-> "RQ4", path |-> "skills/rq4.md",
     matchingLibraries |-> <<[name |-> "rq", versionRange |-> RangeV4]>>],
    [id |-> <<"zod">>, name |-> "Zod", path |-> "skills/zod.md",
     matchingLibraries |-> <<[name |-> "zod", versionRange |-> StarRange]>>],
    [id |-> <<"rq5">>, name |-> "RQ5b", path |-> "skills/rq5b.md",
     matchingLibraries |-> <<[name |-> "zod", versionRange |-> RangeGte3],
                             [name |-> "rq", versionRange |-> RangeGte5]>>] }

\* the registry indexes of the model: up to MaxSkills distinct records
Indexes ==
  {s \in SeqsUpTo(SkillPool, MaxSkills) :
     \A m, n \in DOMAIN s : m # n => s[m] # s[n]}

\* the project directory before the run: the assistant directories may exist
InitialFs ==
  { [dirs |-> {ProjectDirectory} \cup d, files |-> <<>>] :
      d \in SUBSET {join(ProjectDirectory, <<".cursor">>),
                    join(ProjectDirectory, <<".claude">>)} }

\* join on the target paths and the skill ids of the model, evaluated once
TargetPaths ==
  {join(ProjectDirectory, <<".cursor", "skills">>),
   join(ProjectDirectory, <<".claude", "skills">>)}

\* a record whose id climbs out of the directory it is joined to: fetchIndex
\* returns the parsed JSON as it is, so the id is any string of the registry
TraversalSkill ==
  [id |-> <<"..", "..", "outside">>, name |-> "Outside",
   path |-> "skills/outside.md",
   matchingLibraries |-> <<[name |-> "rq", versionRange |-> StarRange]>>]

\* the skill records installSkill can be handed
SuppliedSkills == SkillPool \cup {TraversalSkill}

SkillIds == {k.id : k \in SuppliedSkills}

SkillDirectories == [path \in TargetPaths, id \in SkillIds |-> join(path, id)]

SkillFilePaths ==
  [path \in TargetPaths, id \in SkillIds |-> join(join(path, id), <<"SKILL.md">>)]

\* matchSkills on the manifests and the indexes of the model, evaluated once
MatchedSkills ==
  [d \in DepLists, skills \in Indexes |->
     IF matchSkillsThrows(skills) THEN <<>> ELSE matchSkills(d, skills)] @@ <<>>

(* ---------------- downloader.ts ---------------- *)

\* the document the registry serves at <registryUrl>/<path>
RegistryText(path) == <<"text", path>>

\* SkillDownloader.fetchSkillContent, when the transport succeeds: a Map
\* with the single entry 'content'
fetchSkillContent(skill) ==
  <<[filename |-> "content", content |-> RegistryText(skill.path)]>>

(* ---------------- installer.ts ---------------- *)

\* SkillInstaller.directoryExists
directoryExists(fs, path) == exists(fs, path)

\* detectTargets returning only the targets whose directory exists
detectTargetsExistingOnly(fs, directory) ==
  SelectSeq(<< [type |-> "cursor",
                path |-> join(directory, <<".cursor", "skills">>),
                detected |-> TRUE],
               [type |-> "claude",
                path |-> join(directory, <<".claude", "skills">>),
                detected |-> TRUE] >>,
            LAMBDA t : directoryExists(fs, SubSeq(t.path, 1, Len(t.path) - 1)))

\* SkillInstaller.detectTargets
detectTargets(fs, directory) ==
  LET cursorPath == join(directory, <<".cursor">>)
      cursorDetected == directoryExists(fs, cursorPath)
      claudePath == join(directory, <<".claude", "skills">>)
      claudeDetected == directoryExists(fs, join(directory, <<".claude">>))
  IN << [type |-> "cursor", path |-> join(cursorPath, <<"skills">>),
         detected |-> cursorDetected],
        [type |-> "claude", path |-> claudePath, detected |-> claudeDetected] >>

\* afterDetectTargets with each target path created when it is probed
afterDetectTargetsEnsuring(fs, directory) ==
  mkdir(mkdir(fs, join(directory, <<".cursor", "skills">>)),
        join(directory, <<".claude", "skills">>))

\* the filesystem after detectTargets: its two calls of directoryExists call
\* access, which changes nothing, and it makes no other filesystem call
afterDetectTargets(fs, directory) == fs

\* the directory installSkill creates for a skill in a target
skillDirectory(skill, target) == SkillDirectories[target.path, skill.id]

\* the file installSkill writes for a skill in a target
skillFilePath(skill, target) == SkillFilePaths[target.path, skill.id]

\* the for loop of installSkill over the entries of files; io says whether
\* the filesystem lets writeFile succeed
RECURSIVE writeEntries(_, _, _, _)
writeEntries(r, filePath, files, io) ==
  IF files = <<>> THEN r
  ELSE IF io = "writeFails" \/ ~canWriteFile(r.fs, filePath)
    THEN [r EXCEPT !.threw = TRUE,
                   !.calls = Append(@, [op |-> "writeFile", path |-> filePath,
                                        ok |-> FALSE])]
  ELSE writeEntries(
         [r EXCEPT !.fs = writeFile(@, filePath, Head(files).content),
                   !.installedFiles = Append(@, filePath),
                   !.calls = Append(@, [op |-> "writeFile", path |-> filePath,
                                        ok |-> TRUE])],
         filePath, Tail(files), io)

\* SkillInstaller.installSkill: the filesystem after the call, whether it
\* threw, the paths it returns and the filesystem calls it made
installSkill(fs, skill, files, target, io) ==
  LET dir == skillDirectory(skill, target) IN
  IF io = "mkdirFails" \/ ~canMkdir(fs, dir)
  THEN [fs |-> fs, threw |-> TRUE, installedFiles |-> <<>>,
        calls |-> <<[op |-> "mkdir", path |-> dir, ok |-> FALSE]>>]
  ELSE writeEntries([fs |-> mkdir(fs, dir), threw |-> FALSE,
                     installedFiles |-> <<>>,
                     calls |-> <<[op |-> "mkdir", path |-> dir, ok |-> TRUE]>>],
                    skillFilePath(skill, target), files, io)

(* ---------------- the state of a run ---------------- *)

VARIABLES
  options,   \* CliOptions: all, list
  fs,        \* the filesystem
  state,     \* App's React state (AppState)
  view,      \* the AppState the last render was made from
  widget,    \* MultiSelectCheckbox's React state (cursor, selected), null when unmounted
  closure,   \* the cursor and selected the registered key handler closes over
  setup,     \* runSetup: where it is suspended, and its locals
  inst,      \* performInstallation: where it is suspended, and its locals
  calls,     \* the calls made to the outside (transport, filesystem, onSubmit), in order
  console,   \* the lines written by console.error
  proc,      \* the node process: running, or exited with a code
  cli        \* run of the prompt CLI (src/src/index.ts): where it is suspended, and its locals

vars ==
  <<options, fs, state, view, widget, closure, setup, inst, calls, console, proc, cli>>

\* the process has not exited
Running == [status |-> "running"]

\* the process has exited with this code
Exited(code) == [status |-> "exited", code |-> code]

\* a program that is not the one started
absent == [pc |-> "absent"]

Init ==
  /\ options \in [all : BOOLEAN, list : BOOLEAN]
  /\ fs \in InitialFs
  /\ state = [step |-> "parsing"]
  /\ view = [step |-> "parsing"]
  /\ widget = null
  /\ closure = null
  /\ setup = [pc |-> "findParser"]
  /\ inst = [pc |-> "idle"]
  /\ calls = <<>>
  /\ console = <<>>
  /\ proc = Running
  /\ cli = absent

(* ---------------- runSetup ---------------- *)

RegistryErrorMessage ==
  "Could not fetch skills registry. Make sure the registry URL is correct and accessible."

\* runSetup up to its setState({step: 'fetching'}): findParser, then parse
SetupParse ==
  /\ setup.pc = "findParser"
  /\ \E canParse \in BOOLEAN, parseOk \in BOOLEAN, parsed \in DepLists :
       IF ~canParse
       THEN /\ state' = [step |-> "no-packages"]
            /\ setup' = [pc |-> "returned"]
            /\ calls' = Append(calls, [op |-> "canParse", ok |-> FALSE])
       ELSE IF ~parseOk
       THEN /\ state' = [step |-> "error", message |-> "parse failed"]
            /\ setup' = [pc |-> "returned"]
            /\ calls' = calls \o <<[op |-> "canParse", ok |-> TRUE],
                                   [op |-> "parse", ok |-> FALSE]>>
       ELSE /\ state' = [step |-> "fetching"]
            /\ setup' = [pc |-> "fetchIndex", dependencies |-> parsed]
            /\ calls' = calls \o <<[op |-> "canParse", ok |-> TRUE],
                                   [op |-> "parse", ok |-> TRUE]>>
  /\ UNCHANGED <<proc, cli, options, fs, view, widget, closure, inst, console>>

\* setupOutcome with --all tested before --list
setupOutcomeAllFirst(opts, matchedSkills, targets) ==
  IF Len(matchedSkills) = 0 THEN [step |-> "no-skills"]
  ELSE IF opts.all
    THEN [step |-> "installing", selectedSkills |-> matchedSkills,
          targets |-> targets]
  ELSE IF opts.list THEN [step |-> "list-only", skills |-> matchedSkills]
  ELSE [step |-> "selecting", skills |-> matchedSkills, targets |-> targets]

\* setupOutcome with the prompt skipped whether or not --all is given
setupOutcomeNoPrompt(opts, matchedSkills, targets) ==
  IF Len(matchedSkills) = 0 THEN [step |-> "no-skills"]
  ELSE IF opts.list THEN [step |-> "list-only", skills |-> matchedSkills]
  ELSE [step |-> "installing", selectedSkills |-> matchedSkills,
        targets |-> targets]

\* setupOutcome with the prompt shown whether or not --all is given
setupOutcomeAlwaysPrompt(opts, matchedSkills, targets) ==
  IF Len(matchedSkills) = 0 THEN [step |-> "no-skills"]
  ELSE IF opts.list THEN [step |-> "list-only", skills |-> matchedSkills]
  ELSE [step |-> "selecting", skills |-> matchedSkills, targets |-> targets]

\* what runSetup sets once it has the index: the branch on the match set
\* and on the options
setupOutcome(opts, matchedSkills, targets) ==
  IF Len(matchedSkills) = 0 THEN [step |-> "no-skills"]
  ELSE IF opts.list THEN [step |-> "list-only", skills |-> matchedSkills]
  ELSE IF opts.all
    THEN [step |-> "installing", selectedSkills |-> matchedSkills,
          targets |-> targets]
  ELSE [step |-> "selecting", skills |-> matchedSkills, targets |-> targets]

\* whether runSetup reaches its call of detectTargets
detects(opts, matchedSkills) == Len(matchedSkills) # 0 /\ ~opts.list

\* the existence checks detectTargets makes
detectCalls ==
  <<[op |-> "access", path |-> join(ProjectDirectory, <<".cursor">>)],
    [op |-> "access", path |-> join(ProjectDirectory, <<".claude">>)]>>

\* fetchIndexFailed with the fetch tried again
fetchIndexFailedRetry(s) == s

\* where runSetup is after the catch block of its fetchIndex: it has returned
fetchIndexFailed(s) == [pc |-> "returned"]

\* await downloader.fetchIndex() settles: the catch block on a transport
\* failure, else the index is in hand
SetupFetchIndex ==
  /\ setup.pc = "fetchIndex"
  /\ \E fetchOk \in BOOLEAN, fetched \in Indexes :
       IF ~fetchOk
       THEN /\ state' = [step |-> "error", message |-> RegistryErrorMessage]
            /\ setup' = fetchIndexFailed(setup)
            /\ calls' = Append(calls, [op |-> "fetchIndex", ok |-> FALSE])
       ELSE /\ state' = state
            /\ setup' = [pc |-> "matching", dependencies |-> setup.dependencies,
                         index |-> [skills |-> fetched]]
            /\ calls' = Append(calls, [op |-> "fetchIndex", ok |-> TRUE])
  /\ UNCHANGED <<proc, cli, options, fs, view, widget, closure, inst, console>>

\* runSetup from matchSkills to its return
SetupMatch ==
  /\ setup.pc = "matching"
  /\ IF matchSkillsThrows(setup.index.skills)
     THEN /\ state' = [step |-> "error", message |-> TypeErrorMessage]
          /\ calls' = calls
          /\ fs' = fs
     ELSE \E matchedSkills \in
               {MatchedSkills[setup.dependencies, setup.index.skills]} :
            /\ state' = setupOutcome(options, matchedSkills,
                                      detectTargets(fs, ProjectDirectory))
            /\ calls' = calls
                 \o (IF detects(options, matchedSkills) THEN detectCalls ELSE <<>>)
            /\ fs' = IF detects(options, matchedSkills)
                     THEN afterDetectTargets(fs, ProjectDirectory)
                     ELSE fs
  /\ setup' = [pc |-> "returned"]
  /\ UNCHANGED <<proc, cli, options, view, widget, closure, inst, console>>

(* ---------------- performInstallation ---------------- *)

\* the locals of performInstallation when the installation effect calls it;
\* match and target are 1-based positions in selectedSkills and targets
startInstallation(selectedSkills, targets) ==
  [pc |-> "fetch", selectedSkills |-> selectedSkills, targets |-> targets,
   match |-> 1, target |-> 1, files |-> <<>>,
   successCount |-> 0, installedFiles |-> <<>>]

\* the end of one iteration of the loop over selectedSkills: the next
\* iteration, or the return after the loop
nextMatch(i) ==
  IF i.match + 1 > Len(i.selectedSkills)
  THEN [i EXCEPT !.pc = "returned", !.match = @ + 1]
  ELSE [i EXCEPT !.pc = "fetch", !.match = @ + 1, !.target = 1, !.files = <<>>]

\* catchInstall with the batch aborted at the first failing skill
catchInstallAbort(i) == [i EXCEPT !.pc = "returned"]

\* catchInstall leaving the loop with nothing set afterwards
catchInstallHangs(i) == [i EXCEPT !.pc = "hung"]

\* the catch block of the loop body
catchInstall(i) == nextMatch(i)

\* afterInstall with the loop over targets left after the first target
afterInstallFirstTarget(i, paths) ==
  nextMatch([i EXCEPT !.installedFiles = @ \o paths, !.successCount = @ + 1])

\* afterInstall pushing the returned paths for the last target only
afterInstallPushesLastOnly(i, paths) ==
  IF i.target + 1 > Len(i.targets)
  THEN nextMatch([i EXCEPT !.installedFiles = @ \o paths, !.successCount = @ + 1])
  ELSE [i EXCEPT !.target = @ + 1]

\* afterInstall counting a success for every target written
afterInstallCountsEachTarget(i, paths) ==
  LET pushed == [i EXCEPT !.installedFiles = @ \o paths,
                          !.successCount = @ + 1] IN
  IF i.target + 1 > Len(i.targets)
  THEN nextMatch(pushed)
  ELSE [pushed EXCEPT !.target = @ + 1]

\* the loop body after installSkill returned paths for the current target
afterInstall(i, paths) ==
  LET pushed == [i EXCEPT !.installedFiles = @ \o paths] IN
  IF i.target + 1 > Len(i.targets)
  THEN nextMatch([pushed EXCEPT !.successCount = @ + 1])
  ELSE [pushed EXCEPT !.target = @ + 1]

\* doneState with the written paths dropped
doneStateNoFiles(i) ==
  [step |-> "done", count |-> i.successCount, installedFiles |-> <<>>]

\* the state performInstallation sets after the loop
doneState(i) ==
  [step |-> "done", count |-> i.successCount, installedFiles |-> i.installedFiles]

\* the line console.error writes for a skill that failed
failureLine(match) == <<"Failed to install", match.skill.name>>

\* performInstallation resumes from await downloader.fetchSkillContent
InstallFetch ==
  /\ inst.pc = "fetch"
  /\ \E ok \in BOOLEAN :
       \E match \in {inst.selectedSkills[inst.match]} :
         \E next \in {IF ok
                       THEN [inst EXCEPT !.pc = "install", !.target = 1,
                                         !.files = fetchSkillContent(match.skill)]
                       ELSE catchInstall(inst)} :
           /\ inst' = next
           /\ calls' = Append(calls, [op |-> "fetchSkillContent",
                                      path |-> match.skill.path, ok |-> ok])
           /\ console' = IF ok THEN console ELSE Append(console, failureLine(match))
           /\ state' = IF next.pc = "returned" THEN doneState(next) ELSE state
  /\ UNCHANGED <<proc, cli, options, fs, view, widget, closure, setup>>

\* performInstallation resumes from await installer.installSkill
InstallWrite ==
  /\ inst.pc = "install"
  /\ \E io \in {"ok", "mkdirFails", "writeFails"} :
       \E r \in {installSkill(fs, inst.selectedSkills[inst.match].skill, inst.files,
                              inst.targets[inst.target], io)} :
         \E next \in {IF r.threw THEN catchInstall(inst)
                       ELSE afterInstall(inst, r.installedFiles)} :
           /\ fs' = r.fs
           /\ inst' = next
           /\ calls' = calls \o r.calls
           /\ console' = IF r.threw
                         THEN Append(console,
                                     failureLine(inst.selectedSkills[inst.match]))
                         ELSE console
           /\ state' = IF next.pc = "returned" THEN doneState(next) ELSE state
  /\ UNCHANGED <<proc, cli, options, view, widget, closure, setup>>

(* ---------------- App and MultiSelectCheckbox ---------------- *)

\* the items App passes to MultiSelectCheckbox, by 0-based index
itemIndexes(skills) == 0..(Len(skills) - 1)

\* initialSelected when no defaultSelected is passed: nothing is selected
initialSelectedNone(skills) == {}

\* useState's initial value of selected: the indexes of the items whose
\* value is in defaultSelected (App passes every item's value)
initialSelected(skills) ==
  {index \in itemIndexes(skills) :
     \E d \in 1..Len(skills) : skills[d] = skills[index + 1]}

\* Render with the installation effect run by every render made while the
\* step is installing, as with no dependency list
RenderRunsEffectEveryTime ==
  /\ view # state \/ closure # widget \/ state.step = "installing"
  /\ view' = state
  /\ widget' = IF state.step # "selecting" THEN null
               ELSE IF view.step # "selecting"
                 THEN [cursor |-> 0, selected |-> initialSelected(state.skills)]
               ELSE widget
  /\ closure' = widget'
  /\ IF state.step = "installing"
     THEN /\ inst' = startInstallation(state.selectedSkills, state.targets)
          /\ state' = state
     ELSE UNCHANGED <<inst, state>>
  /\ UNCHANGED <<proc, cli, options, fs, setup, calls, console>>

\* React commits a render of the current state: the widget is mounted or
\* unmounted with the step, the key handler closes over the rendered values,
\* and the installation effect runs when the step has changed to installing
Render ==
  /\ view # state \/ closure # widget
  /\ view' = state
  /\ widget' = IF state.step # "selecting" THEN null
               ELSE IF view.step # "selecting"
                 THEN [cursor |-> 0, selected |-> initialSelected(state.skills)]
               ELSE widget
  /\ closure' = widget'
  /\ IF state.step = "installing" /\ view.step # "installing"
     THEN \E started \in {startInstallation(state.selectedSkills, state.targets)} :
            IF Len(state.selectedSkills) = 0
            THEN /\ inst' = [started EXCEPT !.pc = "returned"]
                 /\ state' = doneState(started)
            ELSE /\ inst' = started
                 /\ state' = state
     ELSE UNCHANGED <<inst, state>>
  /\ UNCHANGED <<proc, cli, options, fs, setup, calls, console>>

\* useInput handler, key.upArrow
KeyUp ==
  /\ closure # null
  /\ widget' = [widget EXCEPT !.cursor = Max2(0, closure.cursor - 1)]
  /\ UNCHANGED <<proc, cli, options, fs, state, view, closure, setup, inst, calls, console>>

\* KeyDown without the bound of the last item
KeyDownUnbounded ==
  /\ closure # null
  /\ widget' = [widget EXCEPT !.cursor = closure.cursor + 1]
  /\ UNCHANGED <<proc, cli, options, fs, state, view, closure, setup, inst, calls, console>>

\* useInput handler, key.downArrow
KeyDown ==
  /\ closure # null
  /\ widget' = [widget EXCEPT
                  !.cursor = Min2(Len(view.skills) - 1, closure.cursor + 1)]
  /\ UNCHANGED <<proc, cli, options, fs, state, view, closure, setup, inst, calls, console>>

\* an updater that clears the whole selection when it deselects
toggleClearsAll(prev, cursor) ==
  IF cursor \in prev THEN {} ELSE prev \cup {cursor}

\* the updater passed to setSelected
toggle(prev, cursor) ==
  IF cursor \in prev THEN prev \ {cursor} ELSE prev \cup {cursor}

\* useInput handler, input === ' '
KeySpace ==
  /\ closure # null
  /\ widget' = [widget EXCEPT !.selected = toggle(@, closure.cursor)]
  /\ UNCHANGED <<proc, cli, options, fs, state, view, closure, setup, inst, calls, console>>

\* the selected items from the last to the first
RECURSIVE filterSelectedBackwards(_, _, _)
filterSelectedBackwards(skills, selected, index) ==
  IF index >= Len(skills) THEN <<>>
  ELSE filterSelectedBackwards(skills, selected, index + 1)
       \o (IF index \in selected THEN <<skills[index + 1]>> ELSE <<>>)

\* items.filter((_, index) => selected.has(index)).map(item => item.value)
RECURSIVE filterSelected(_, _, _)
filterSelected(skills, selected, index) ==
  IF index >= Len(skills) THEN <<>>
  ELSE (IF index \in selected THEN <<skills[index + 1]>> ELSE <<>>)
       \o filterSelected(skills, selected, index + 1)

\* onSubmit without the test for an empty selection
onSubmitAlwaysInstalls(selectedItems, targets) ==
  [step |-> "installing", selectedSkills |-> selectedItems, targets |-> targets]

\* the onSubmit App passes to MultiSelectCheckbox
onSubmit(selectedItems, targets) ==
  IF Len(selectedItems) = 0
  THEN [step |-> "done", count |-> 0, installedFiles |-> <<>>]
  ELSE [step |-> "installing", selectedSkills |-> selectedItems,
        targets |-> targets]

submits == Len(SelectSeq(calls, LAMBDA c : c.op = "onSubmit"))

\* KeyReturn reading the selection as the toggles left it, not as rendered
KeyReturnLatestSelection ==
  /\ closure # null
  /\ submits < MaxSubmits
  /\ \E selectedItems \in {filterSelected(view.skills, widget.selected, 0)} :
       /\ state' = onSubmit(selectedItems, view.targets)
       /\ calls' = Append(calls, [op |-> "onSubmit", step |-> view.step,
                                  selected |-> selectedItems])
  /\ UNCHANGED <<proc, cli, options, fs, view, widget, closure, setup, inst, console>>

\* useInput handler, key.return
KeyReturn ==
  /\ closure # null
  /\ submits < MaxSubmits
  /\ \E selectedItems \in {filterSelected(view.skills, closure.selected, 0)} :
       /\ state' = onSubmit(selectedItems, view.targets)
       /\ calls' = Append(calls, [op |-> "onSubmit", step |-> view.step,
                                  selected |-> selectedItems])
  /\ UNCHANGED <<proc, cli, options, fs, view, widget, closure, setup, inst, console>>

\* Ctrl+C while MultiSelectCheckbox holds stdin in raw mode and the run is in
\* Selecting: render() was called without exitOnCtrlC: false, so Ink does not
\* pass the key to the useInput handler, unmounts the tree and the process
\* ends; nothing sets process.exitCode
CtrlC ==
  /\ proc = Running
  /\ closure # null
  /\ state.step = "selecting"
  /\ view = state
  /\ widget' = null
  /\ closure' = null
  /\ proc' = Exited(0)
  /\ calls' = Append(calls, [op |-> "cancel", step |-> state.step])
  /\ UNCHANGED <<cli, options, fs, state, view, setup, inst, console>>

\* the steps App renders with no spinner and no key handler
RestingSteps == {"no-packages", "no-skills", "list-only", "done", "error"}

\* nothing is pending any more (no awaited call, no render, no spinner
\* timer, no stdin listener): node leaves the event loop; program.action
\* sets no exit code and never calls process.exit
Exit ==
  /\ proc = Running
  /\ setup.pc = "returned"
  /\ inst.pc \in {"idle", "returned"}
  /\ view = state
  /\ closure = widget
  /\ state.step \in RestingSteps
  /\ proc' = Exited(0)
  /\ UNCHANGED <<cli, options, fs, state, view, widget, closure, setup, inst, calls,
                 console>>

(* ---------------- the prompt CLI (src/src/index.ts) ---------------- *)

\* how program.action's call of run ends: run returned, run threw the
\* error of a prompt closed by the operator ('User force closed ...'), or
\* run threw anything else
RunOutcomes == {"returned", "cancelled", "threw"}

\* actionExitCode with a closed prompt handled like any other error
actionExitCodeNoCancel(outcome) == IF outcome = "returned" THEN 0 ELSE 1

\* the exit code program.action leaves: process.exit(0) for a closed prompt,
\* process.exit(1) for any other error, and node's own 0 when run returned
actionExitCode(outcome) == IF outcome = "threw" THEN 1 ELSE 0

\* run ended: what is left of it
cliEnded(outcome) == [pc |-> "ended", outcome |-> outcome]

\* the lines run prints when the index fetch failed
RegistryUrl == "registry"

CliRegistryErrorLines ==
  << <<"Could not fetch skills registry.">>,
     <<"Make sure the registry URL is correct and accessible.">>,
     <<"Registry:", RegistryUrl>> >>

\* run up to its call of fetchIndex: findParser, then parse
CliParse ==
  /\ cli.pc = "findParser"
  /\ \E canParse \in BOOLEAN, parseOk \in BOOLEAN, parsed \in DepLists :
       IF ~canParse
       THEN /\ cli' = cliEnded("returned")
            /\ proc' = Exited(actionExitCode("returned"))
            /\ calls' = Append(calls, [op |-> "canParse", ok |-> FALSE])
       ELSE IF ~parseOk
       THEN /\ cli' = cliEnded("threw")
            /\ proc' = Exited(actionExitCode("threw"))
            /\ calls' = calls \o <<[op |-> "canParse", ok |-> TRUE],
                                   [op |-> "parse", ok |-> FALSE]>>
       ELSE /\ cli' = [pc |-> "fetchIndex", dependencies |-> parsed]
            /\ proc' = proc
            /\ calls' = calls \o <<[op |-> "canParse", ok |-> TRUE],
                                   [op |-> "parse", ok |-> TRUE]>>
  /\ UNCHANGED <<options, fs, state, view, widget, closure, setup, inst, console>>

\* await downloader.fetchIndex() settles in run
CliFetchIndex ==
  /\ cli.pc = "fetchIndex"
  /\ \E fetchOk \in BOOLEAN, fetched \in Indexes :
       IF ~fetchOk
       THEN /\ cli' = cliEnded("returned")
            /\ proc' = Exited(actionExitCode("returned"))
            /\ console' = console \o CliRegistryErrorLines
            /\ calls' = Append(calls, [op |-> "fetchIndex", ok |-> FALSE])
       ELSE /\ cli' = [pc |-> "matching", dependencies |-> cli.dependencies,
                       index |-> [skills |-> fetched]]
            /\ proc' = proc
            /\ console' = console
            /\ calls' = Append(calls, [op |-> "fetchIndex", ok |-> TRUE])
  /\ UNCHANGED <<options, fs, state, view, widget, closure, setup, inst>>

\* targets.filter((t) => t.detected)
detectedOf(targets) == SelectSeq(targets, LAMBDA t : t.detected)

\* run's loop over selectedSkills is entered with this target, or is over
cliInstallOrEnd(c, target) ==
  [pc |-> "install", selectedSkills |-> c.selectedSkills, target |-> target,
   match |-> 1]

\* run at "Select target": the one detected target, a prompt when there are
\* several, the cursor target when there is none
cliSelectTarget(c) ==
  IF Len(c.detectedTargets) = 1 THEN cliInstallOrEnd(c, c.detectedTargets[1])
  ELSE IF Len(c.detectedTargets) > 1 THEN [c EXCEPT !.pc = "select"]
  ELSE cliInstallOrEnd(c, CHOOSE t \in Range(c.targets) : t.type = "cursor")

\* run at "Select skills": every match with --all, else the checkbox prompt
cliSelectSkills(opts, c) ==
  IF opts.all
  THEN cliSelectTarget([c EXCEPT !.selectedSkills = c.matchedSkills])
  ELSE [c EXCEPT !.pc = "checkbox"]

\* run from matchSkills to its first prompt, to the installation loop or to
\* its return
CliMatch ==
  /\ cli.pc = "matching"
  /\ \E matchedSkills \in {MatchedSkills[cli.dependencies, cli.index.skills]} :
       IF matchSkillsThrows(cli.index.skills)
       THEN /\ cli' = cliEnded("threw")
            /\ proc' = Exited(actionExitCode("threw"))
            /\ calls' = calls
            /\ fs' = fs
       ELSE IF Len(matchedSkills) = 0 \/ options.list
       THEN /\ cli' = cliEnded("returned")
            /\ proc' = Exited(actionExitCode("returned"))
            /\ calls' = calls
            /\ fs' = fs
       ELSE \E targets \in {detectTargets(fs, ProjectDirectory)} :
              \E c \in {[pc |-> "confirm", matchedSkills |-> matchedSkills,
                         selectedSkills |-> <<>>, targets |-> targets,
                         detectedTargets |-> detectedOf(targets)]} :
                /\ cli' = IF Len(c.detectedTargets) = 0 THEN c
                          ELSE cliSelectSkills(options, c)
                /\ proc' = proc
                /\ calls' = calls \o detectCalls
                /\ fs' = afterDetectTargets(fs, ProjectDirectory)
  /\ UNCHANGED <<options, state, view, widget, closure, setup, inst, console>>

\* the answers of the operator to a yes/no prompt, with closing the prompt
ConfirmAnswers == {"yes", "no", "closed"}

\* await confirm(...) settles: create a .cursor/skills directory?
CliConfirm ==
  /\ cli.pc = "confirm"
  /\ \E answer \in ConfirmAnswers :
       /\ cli' = CASE answer = "closed" -> cliEnded("cancelled")
                   [] answer = "no" -> cliEnded("returned")
                   [] answer = "yes" ->
                        cliSelectSkills(options,
                                        [cli EXCEPT !.targets[1].detected = TRUE])
       /\ proc' = IF answer = "yes" THEN proc
                  ELSE Exited(actionExitCode(cli'.outcome))
       /\ calls' = Append(calls, [op |-> "confirm", answer |-> answer])
  /\ UNCHANGED <<options, fs, state, view, widget, closure, setup, inst, console>>

\* the choices of a sequence at the given positions, in the sequence's order
RECURSIVE pick(_, _, _)
pick(items, positions, n) ==
  IF n > Len(items) THEN <<>>
  ELSE (IF n \in positions THEN <<items[n]>> ELSE <<>>) \o pick(items, positions, n + 1)

\* await checkbox(...) settles: the checked choices, or the prompt was closed
CliCheckbox ==
  /\ cli.pc = "checkbox"
  /\ \E closed \in BOOLEAN, checked \in SUBSET (1..Len(cli.matchedSkills)) :
       \E selectedSkills \in {pick(cli.matchedSkills, checked, 1)} :
         /\ cli' = IF closed THEN cliEnded("cancelled")
                   ELSE IF Len(selectedSkills) = 0 THEN cliEnded("returned")
                   ELSE cliSelectTarget([cli EXCEPT !.selectedSkills = selectedSkills])
         /\ proc' = IF cli'.pc = "ended" THEN Exited(actionExitCode(cli'.outcome))
                    ELSE proc
         /\ calls' = Append(calls,
                            IF closed THEN [op |-> "cancel", step |-> "checkbox"]
                            ELSE [op |-> "onSubmit", step |-> "checkbox",
                                  selected |-> selectedSkills])
  /\ UNCHANGED <<options, fs, state, view, widget, closure, setup, inst, console>>

\* await select(...) settles: the chosen target, or the prompt was closed
CliSelect ==
  /\ cli.pc = "select"
  /\ \E closed \in BOOLEAN, chosen \in 1..Len(cli.detectedTargets) :
       /\ cli' = IF closed THEN cliEnded("cancelled")
                 ELSE cliInstallOrEnd(cli, cli.detectedTargets[chosen])
       /\ proc' = IF closed THEN Exited(actionExitCode("cancelled")) ELSE proc
       /\ calls' = Append(calls,
                          IF closed THEN [op |-> "cancel", step |-> "select"]
                          ELSE [op |-> "select", step |-> "select"])
  /\ UNCHANGED <<options, fs, state, view, widget, closure, setup, inst, console>>

\* one iteration of run's loop over selectedSkills: fetchSkillContent, then
\* installSkill to the one target, any failure caught and printed; after
\* the last iteration run returns
CliInstall ==
  /\ cli.pc = "install"
  /\ \E fetchOk \in BOOLEAN, io \in {"ok", "mkdirFails", "writeFails"} :
       \E match \in {cli.selectedSkills[cli.match]} :
         \E r \in {installSkill(fs, match.skill, fetchSkillContent(match.skill),
                                cli.target, io)} :
           /\ (~fetchOk => io = "ok")
           /\ fs' = IF fetchOk THEN r.fs ELSE fs
           /\ calls' = Append(calls, [op |-> "fetchSkillContent",
                                      path |-> match.skill.path, ok |-> fetchOk])
                         \o (IF fetchOk THEN r.calls ELSE <<>>)
           /\ console' = IF fetchOk /\ ~r.threw THEN console
                         ELSE Append(console, failureLine(match))
           /\ cli' = IF cli.match + 1 > Len(cli.selectedSkills)
                     THEN cliEnded("returned")
                     ELSE [cli EXCEPT !.match = @ + 1]
           /\ proc' = IF cli'.pc = "ended" THEN Exited(actionExitCode("returned"))
                      ELSE proc
  /\ UNCHANGED <<options, state, view, widget, closure, setup, inst>>

\* the prompt CLI is started
CliInit ==
  /\ options \in [all : BOOLEAN, list : BOOLEAN]
  /\ fs \in InitialFs
  /\ state = [step |-> "absent"]
  /\ view = [step |-> "absent"]
  /\ widget = null
  /\ closure = null
  /\ setup = absent
  /\ inst = [pc |-> "idle"]
  /\ calls = <<>>
  /\ console = <<>>
  /\ proc = Running
  /\ cli = [pc |-> "findParser"]

CliNext ==
  \/ CliParse
  \/ CliFetchIndex
  \/ CliMatch
  \/ CliConfirm
  \/ CliCheckbox
  \/ CliSelect
  \/ CliInstall

\* a run of the prompt CLI
CliSpec == CliInit /\ [][CliNext]_vars

(* ---------------- the run ---------------- *)

Next ==
  \/ CtrlC
  \/ Exit
  \/ SetupParse
  \/ SetupFetchIndex
  \/ SetupMatch
  \/ Render
  \/ KeyUp
  \/ KeyDown
  \/ KeySpace
  \/ KeyReturn
  \/ InstallFetch
  \/ InstallWrite

Spec == Init /\ [][Next]_vars

\* the scheduling of a run: React commits pending renders and every pending
\* asynchronous call settles; key presses are up to the operator
LiveSpec ==
  /\ Spec
  /\ WF_vars(SetupParse)
  /\ WF_vars(SetupFetchIndex)
  /\ WF_vars(SetupMatch)
  /\ WF_vars(Render)
  /\ WF_vars(InstallFetch)
  /\ WF_vars(InstallWrite)

\* LiveSpec with an operator who, while the selection is on screen, does
\* press Enter at some point
ConfirmingSpec == LiveSpec /\ WF_vars(KeyReturn)

(* ---------------- installSkill called in a row ---------------- *)

\* nothing has been started: the filesystem of a project and no call yet
InstallerInit ==
  /\ options \in {[all |-> FALSE, list |-> FALSE]}
  /\ fs \in InitialFs
  /\ state = [step |-> "absent"]
  /\ view = [step |-> "absent"]
  /\ widget = null
  /\ closure = null
  /\ setup = absent
  /\ inst = [pc |-> "idle"]
  /\ calls = <<>>
  /\ console = <<>>
  /\ proc = Running
  /\ cli = absent

\* one call of installSkill, for any skill of the registry and any target of
\* detectTargets, with the content fetchSkillContent gives for the skill
CallInstallSkill ==
  /\ setup = absent
  /\ cli = absent
  /\ Len(calls) < MaxInstalls
  /\ \E skill \in SuppliedSkills,
        target \in Range(detectTargets(fs, ProjectDirectory)),
        io \in {"ok", "mkdirFails", "writeFails"} :
       \E r \in {installSkill(fs, skill, fetchSkillContent(skill), target, io)} :
         /\ fs' = r.fs
         /\ calls' = Append(calls, [op |-> "installSkill", skill |-> skill,
                                    target |-> target.path, io |-> io,
                                    threw |-> r.threw,
                                    returned |-> r.installedFiles,
                                    after |-> r.fs])
  /\ UNCHANGED <<proc, cli, options, state, view, widget, closure, setup, inst,
                 console>>

\* installSkill called up to MaxInstalls times on the filesystem of a project
InstallerSpec == InstallerInit /\ [][CallInstallSkill]_vars

\* a run of either entry point: the Ink CLI (src/src/index.tsx) or the
\* prompt CLI (src/src/index.ts)
BothSpec == (Init \/ CliInit) /\ [][Next \/ CliNext]_vars

(* ---------------- reading the record of calls ---------------- *)

\* the positions in calls of the content fetches, and the n-th of them
FetchPositions == {p \in DOMAIN calls : calls[p].op = "fetchSkillContent"}

NthFetch(n) ==
  CHOOSE p \in FetchPositions : Cardinality({q \in FetchPositions : q <= p}) = n

\* the calls made for the n-th selected skill: its fetch and what follows, up
\* to the next fetch
SkillCalls(n) ==
  SubSeq(calls, NthFetch(n),
         IF n < Cardinality(FetchPositions) THEN NthFetch(n + 1) - 1 ELSE Len(calls))

IsFsCall(c) == c.op \in {"mkdir", "writeFile"}

IsInstallCall(c) == c.op \in {"fetchSkillContent", "mkdir", "writeFile"}

FetchSucceeded(n) == calls[NthFetch(n)].ok

\* the paths the n-th selected skill was written to
WrittenPaths(n) ==
  LET w == SelectSeq(SkillCalls(n), LAMBDA c : c.op = "writeFile" /\ c.ok)
  IN [k \in 1..Len(w) |-> w[k].path]

\* the n-th selected skill was fetched and no filesystem call for it failed
Installed(n) == \A c \in Range(SkillCalls(n)) : c.ok

\* installSkill was called for the n-th selected skill and target t
WriteAttempted(n, t) ==
  \E c \in Range(SkillCalls(n)) :
    /\ c.op = "mkdir"
    /\ c.path = skillDirectory(inst.selectedSkills[n].skill, inst.targets[t])

InstallationReturned == inst.pc = "returned"

Selected == 1..Len(inst.selectedSkills)

NoFsChange ==
  /\ fs \in InitialFs
  /\ \A c \in Range(calls) : ~IsFsCall(c)

Interactive == ~options.all /\ ~options.list

AllMode == options.all /\ ~options.list

(* ---------------- the installation pipeline ---------------- *)

\* C1: in performInstallation every selected skill's content is fetched
\* exactly once, in selection order, whatever fetches failed before it: the
\* fetches made so far are those of the skills reached so far, and when the
\* function has returned every selected skill was fetched and every skill
\* whose fetch succeeded had its write to the first target attempted.
C1_EachSkillFetchedOnceInOrder ==
  inst.pc # "idle" =>
    LET reached == CASE inst.pc = "fetch" -> inst.match - 1
                     [] inst.pc = "install" -> inst.match
                     [] OTHER -> Len(inst.selectedSkills)
    IN /\ Cardinality(FetchPositions) = reached
       /\ \A n \in 1..reached :
            calls[NthFetch(n)].path = inst.selectedSkills[n].skill.path
       /\ InstallationReturned =>
            \A n \in Selected : FetchSucceeded(n) => WriteAttempted(n, 1)

\* a run where a fetch failed and a later skill was fetched and written
C1_Witness ==
  /\ InstallationReturned
  /\ \E n, m \in Selected :
       /\ n < m
       /\ ~FetchSucceeded(n)
       /\ FetchSucceeded(m)
       /\ Len(WrittenPaths(m)) = Len(inst.targets)

\* C2: for a skill whose fetch succeeded, a failed write to one target
\* does not prevent the write to each remaining target from being attempted,
\* nor the fetch of the later skills.
C2_WriteFailureLeavesOtherTargets ==
  InstallationReturned =>
    /\ Cardinality(FetchPositions) = Len(inst.selectedSkills)
    /\ \A n \in Selected :
         FetchSucceeded(n) =>
           \A t \in 1..Len(inst.targets) : WriteAttempted(n, t)

\* C3: the count carried by Done is the number of selected skills whose
\* content fetch succeeded.
C3_CountIsFetchedSkills ==
  (InstallationReturned /\ state.step = "done") =>
    state.count = Cardinality({n \in Selected : FetchSucceeded(n)})

\* a later selected skill is installed into the same directory of a target
Overwritten(n, t) ==
  \E m \in Selected :
    /\ m > n
    /\ skillDirectory(inst.selectedSkills[m].skill, inst.targets[t])
         = skillDirectory(inst.selectedSkills[n].skill, inst.targets[t])

\* the file of the n-th selected skill in target t holds the text fetched
\* for that skill
HoldsFetchedText(n, t) ==
  LET skill == inst.selectedSkills[n].skill
      filePath == skillFilePath(skill, detectTargets(fs, ProjectDirectory)[t]) IN
  /\ filePath \in DOMAIN fs.files
  /\ fs.files[filePath] = RegistryText(skill.path)

InstalledCount == Cardinality({n \in Selected : Installed(n)})

\* the paths of the successful writes of the run, in order
AllWrittenPaths ==
  LET w == SelectSeq(calls, LAMBDA c : c.op = "writeFile" /\ c.ok)
  IN [k \in 1..Len(w) |-> w[k].path]

\* C5: once the run is in Installing it goes nowhere but to Done, it does
\* reach Done whatever fetches and writes fail, and Done then carries the
\* number of skills installed and the paths written, in order.
C5_InstallingEndsInDone ==
  /\ [][state.step = "installing" => state'.step \in {"installing", "done"}]_vars
  /\ (state.step = "installing") ~> (state.step = "done")
  /\ [](state.step = "done" /\ InstallationReturned =>
          /\ state.count = InstalledCount
          /\ state.installedFiles = AllWrittenPaths)

\* Done reached from Installing with a failed fetch and a failed write
C5_Witness ==
  /\ state.step = "done"
  /\ InstallationReturned
  /\ \E c \in Range(calls) : c.op = "fetchSkillContent" /\ ~c.ok
  /\ \E c \in Range(calls) : c.op = "writeFile" /\ ~c.ok

\* the lines console.error would have if the skills reported as failed were
\* those whose content fetch failed, in selection order
RECURSIVE FetchFailureLines(_)
FetchFailureLines(n) ==
  IF n = 0 THEN <<>>
  ELSE FetchFailureLines(n - 1)
       \o (IF FetchSucceeded(n) THEN <<>> ELSE <<failureLine(inst.selectedSkills[n])>>)

\* C6: installation yields one result per selected skill: the run is in
\* Done, the skills reported as failed are those whose content fetch failed,
\* every other skill is counted as succeeded, and the paths written for it
\* are listed.
C6_OneResultPerSkill ==
  InstallationReturned =>
    /\ state.step = "done"
    /\ console = FetchFailureLines(Len(inst.selectedSkills))
    /\ state.count + Len(console) = Len(inst.selectedSkills)
    /\ \A n \in Selected :
         FetchSucceeded(n) =>
           Range(WrittenPaths(n)) \subseteq Range(state.installedFiles)

(* ---------------- the selection protocol ---------------- *)

EmptySubmit == \E c \in Range(calls) : c.op = "onSubmit" /\ c.selected = <<>>

\* C7: in interactive mode, once an empty selection is confirmed the run is
\* in Done with count 0 and no written path, performInstallation is never
\* started, no content is fetched and the filesystem is as it was.
C7_EmptySelectionGoesToDone ==
  EmptySubmit =>
    /\ state = [step |-> "done", count |-> 0, installedFiles |-> <<>>]
    /\ view.step \in {"selecting", "done"}
    /\ inst.pc = "idle"
    /\ \A c \in Range(calls) : ~IsInstallCall(c)
    /\ NoFsChange

\* Done rendered after the operator confirmed an empty selection
C7_Witness ==
  /\ Interactive
  /\ EmptySubmit
  /\ view.step = "done"

\* the skills of the index that have a matching dependency, in index order
MatchSet(dependencies, skills) ==
  LET kept == SelectSeq(skills,
                        LAMBDA k : findMatchingDependency(k, dependencies) # null)
  IN [n \in 1..Len(kept) |->
        [skill |-> kept[n],
         dependency |-> findMatchingDependency(kept[n], dependencies)]]

\* what runSetup is about to match; nothing when matchSkills throws
PendingMatchSet ==
  IF matchSkillsThrows(setup.index.skills) THEN <<>>
  ELSE MatchSet(setup.dependencies, setup.index.skills)

\* C8: with --list nothing is created or written in any state of the run,
\* nothing is selected or installed, and a non-empty match set puts the run
\* in ListOnly with the full match set, where it stays.
C8_ListModeWritesNothing ==
  /\ [](options.list =>
          /\ NoFsChange
          /\ inst.pc = "idle"
          /\ state.step \notin {"selecting", "installing", "done"})
  /\ [][(options.list /\ setup.pc = "matching" /\ setup'.pc = "returned"
           /\ PendingMatchSet # <<>>)
        => state' = [step |-> "list-only", skills |-> PendingMatchSet]]_vars
  /\ [][(options.list /\ state.step = "list-only") => state' = state]_vars

\* ListOnly rendered with several matches, with --all given as well
C8_Witness ==
  /\ options.list
  /\ options.all
  /\ view.step = "list-only"
  /\ Len(view.skills) > 1

\* C9: in interactive mode every content fetch and every installation write
\* comes after a confirmation made in the Selecting state.
C9_NoInstallBeforeConfirmation ==
  Interactive =>
    \A p \in DOMAIN calls :
      IsInstallCall(calls[p]) =>
        \E q \in 1..(p - 1) :
          calls[q].op = "onSubmit" /\ calls[q].step = "selecting"

\* an interactive run that wrote a file
C9_Witness ==
  /\ Interactive
  /\ \E c \in Range(calls) : c.op = "writeFile" /\ c.ok

IndexFetches == SelectSeq(calls, LAMBDA c : c.op = "fetchIndex")

IndexFetchFailed == \E c \in Range(calls) : c.op = "fetchIndex" /\ ~c.ok

\* C11: the registry index is fetched at most once, and exactly once when
\* runSetup got past parsing; when the fetch fails it is the last call the
\* run makes: the state is Error with the registry message, runSetup has
\* returned without matching or detecting targets, performInstallation is
\* never started and the filesystem is as it was.
C11_IndexFetchedOnceFailureEndsRun ==
  /\ Len(IndexFetches) <= 1
  /\ (setup.pc = "matching" \/ state.step \in {"no-skills", "list-only", "selecting",
                                               "installing", "done"})
       => Len(IndexFetches) = 1
  /\ IndexFetchFailed =>
       /\ calls[Len(calls)] = [op |-> "fetchIndex", ok |-> FALSE]
       /\ state = [step |-> "error", message |-> RegistryErrorMessage]
       /\ setup.pc = "returned"
       /\ inst.pc = "idle"
       /\ NoFsChange

\* Error rendered after the index fetch failed
C11_Witness ==
  /\ IndexFetchFailed
  /\ view.step = "error"

(* ---------------- cancellation and exit codes ---------------- *)

\* the operator cancelled while the run was selecting skills
CancelledInSelecting ==
  \E c \in Range(calls) : c.op = "cancel" /\ c.step \in {"selecting", "checkbox"}

\* C12: once the operator has cancelled in Selecting, in either entry point,
\* the process has exited with code 0, the cancellation is the last thing
\* the run did (no content fetch, no write after it), no installation was
\* started and the filesystem is as it was.
C12_CancelInSelectingExitsCleanly ==
  CancelledInSelecting =>
    /\ proc = Exited(0)
    /\ calls[Len(calls)].op = "cancel"
    /\ \A c \in Range(calls) : ~IsInstallCall(c)
    /\ inst.pc = "idle"
    /\ cli.pc \in {"absent", "ended"}
    /\ NoFsChange

\* the Ink CLI cancelled in Selecting with two matches on screen
C12_Witness ==
  /\ cli = absent
  /\ CancelledInSelecting
  /\ view.step = "selecting"
  /\ Len(view.skills) = 2

\* some call of the run failed
SomeCallFailed == \E c \in Range(calls) : "ok" \in DOMAIN c /\ ~c.ok

\* C13: when the process has exited, in either entry point, its exit code
\* is non-zero if the index fetch failed, and 0 if no call failed (the run
\* succeeded, found no manifest or no match, or was cancelled).
C13_ExitCodeTellsTransportError ==
  proc.status = "exited" =>
    /\ IndexFetchFailed => proc.code # 0
    /\ ~SomeCallFailed => proc.code = 0

(* ---------------- the installed files ---------------- *)

\* the file name the layout of STRUCTURE.md gives a skill: its id, then the
\* extension
FlatFileName(id) == <<id, ".md">>

\* path a is a proper prefix of path b
StrictlyInside(a, b) == Len(a) < Len(b) /\ SubSeq(b, 1, Len(a)) = a

\* C14: every file the run writes is <target path>/<skill id>.<extension>
\* for a target of detectTargets and a skill of the index, and no directory
\* exists below a target's path.
C14_OneFlatFilePerTarget ==
  LET targets == Range(detectTargets(fs, ProjectDirectory)) IN
  /\ \A c \in Range(calls) :
       (c.op = "writeFile" /\ c.ok) =>
         \E t \in targets, k \in SkillPool :
           c.path = Append(t.path, FlatFileName(k.id))
  /\ \A d \in fs.dirs : \A t \in targets : ~StrictlyInside(t.path, d)

\* calls n and n + 1 of installSkill have the same skill and target, the
\* first succeeded and the filesystem does not fail the second
InstalledTwice(n) ==
  /\ n + 1 \in DOMAIN calls
  /\ calls[n].op = "installSkill" /\ calls[n + 1].op = "installSkill"
  /\ calls[n + 1].skill = calls[n].skill
  /\ calls[n + 1].target = calls[n].target
  /\ ~calls[n].threw
  /\ calls[n + 1].io = "ok"

\* C15: when installSkill is called twice in a row with the same skill, the
\* same content and the same target, the second call succeeds, returns the
\* same paths as the first and leaves the filesystem as the first left it:
\* one file for the pair, holding the content.
C15_InstallTwiceIsInstallOnce ==
  \A n \in DOMAIN calls :
    InstalledTwice(n) =>
      /\ ~calls[n + 1].threw
      /\ calls[n + 1].returned = calls[n].returned
      /\ calls[n + 1].after = calls[n].after
      /\ Len(calls[n + 1].returned) = 1
      /\ calls[n + 1].after.files[calls[n + 1].returned[1]]
           = RegistryText(calls[n].skill.path)

\* a skill installed twice in a row to the same target: one file on disk
C15_Witness ==
  /\ InstalledTwice(1)
  /\ ~calls[2].threw
  /\ Cardinality(DOMAIN fs.files) = 1

(* ---------------- the matcher ---------------- *)

\* runSetup is at its call of matchSkills and returns in this step
Matches == setup.pc = "matching" /\ setup'.pc = "returned"

\* the match set an AppState carries
MatchedOf(st) ==
  IF st.step \in {"list-only", "selecting"} THEN st.skills
  ELSE IF st.step = "installing" THEN st.selectedSkills
  ELSE <<>>

\* the dependency has the library's name and a version in its range
Satisfies(dep, lib) ==
  dep.name = lib.name /\ versionMatches(dep.version, lib.versionRange)

\* the dependency satisfies one of the skill's matching libraries
SatisfiesSkill(dep, skill) ==
  \E lib \in Range(skill.matchingLibraries) : Satisfies(dep, lib)

\* position i is that of the first dependency, in list order, satisfying the
\* library
FirstFor(dependencies, lib, i) ==
  /\ Satisfies(dependencies[i], lib)
  /\ \A j \in 1..(i - 1) : ~Satisfies(dependencies[j], lib)

SkillsOf(matched) == [n \in DOMAIN matched |-> matched[n].skill]

\* sequence a is sequence b with some entries left out
IsSubsequence(a, b) ==
  \E f \in [DOMAIN a -> DOMAIN b] :
    /\ \A m, n \in DOMAIN a : m < n => f[m] < f[n]
    /\ \A n \in DOMAIN a : a[n] = b[f[n]]

\* sequence a is a reordering of sequence b
IsPermutation(a, b) ==
  /\ Len(a) = Len(b)
  /\ \E p \in [DOMAIN a -> DOMAIN b] :
       /\ \A m, n \in DOMAIN a : m # n => p[m] # p[n]
       /\ \A n \in DOMAIN a : a[n] = b[p[n]]

\* C17: the skills of the match set are index.skills with some entries left
\* out (index order, no entry twice), and matchSkills on any reordering of
\* the dependency list gives the same skills in the same order.
C17_MatchesAreSubsequenceOfIndex ==
  [][Matches =>
       LET result == SkillsOf(MatchedOf(state')) IN
       /\ IsSubsequence(result, setup.index.skills)
       /\ \A m, n \in DOMAIN result : m # n => result[m] # result[n]
       /\ \A d \in DepLists :
            IsPermutation(d, setup.dependencies) =>
              SkillsOf(MatchedSkills[d, setup.index.skills]) = result]_vars

\* two skills offered in index order, the second paired with a dependency
\* other than that of the first
C17_Witness ==
  /\ view.step = "selecting"
  /\ Len(view.skills) = 2
  /\ view.skills[1].dependency = Zod321
  /\ view.skills[2].dependency = Rq520

\* the library requirements of a skill record: its matchingLibraries, or
\* the library and versionRange of the record types.ts declares
RequirementsOf(skill) ==
  IF notIterable(skill)
  THEN {[name |-> skill.library, versionRange |-> skill.versionRange]}
  ELSE Range(skill.matchingLibraries)

\* some dependency has the name and a version in the range of a library the
\* skill requires
HasSatisfyingDependency(skill, dependencies) ==
  \E d \in Range(dependencies), lib \in RequirementsOf(skill) : Satisfies(d, lib)

\* C18: matchSkills raises no error, and its result holds exactly the skills
\* of the index that some dependency satisfies (so none for an empty
\* dependency list or an empty index).
C18_MatchedIffSomeDependencySatisfies ==
  [][Matches =>
       /\ state'.step # "error"
       /\ SkillsOf(MatchedOf(state'))
            = SelectSeq(setup.index.skills,
                        LAMBDA k : HasSatisfyingDependency(k, setup.dependencies))]_vars

\* no version can be read from the string, strictly or by coercion
Unparseable(version) == ~coerce(version).valid /\ ~parse(version).valid

\* the dependencies of the list that carry the name of a library the skill
\* requires with the wildcard range
WildcardDependencies(skill, dependencies) ==
  {d \in Range(dependencies) :
     \E lib \in Range(skill.matchingLibraries) :
       lib.name = d.name /\ lib.versionRange = StarRange}

\* C19: versionMatches(v, "*") is true for every version string v, the empty
\* string and strings no version can be read from included; a skill that
\* requires a library with range "*" is matched whatever the version of the
\* dependency of that name.
C19_WildcardMatchesEveryVersion ==
  [][(Matches /\ ~matchSkillsThrows(setup.index.skills)) =>
       /\ \A d \in Range(setup.dependencies) : versionMatches(d.version, StarRange)
       /\ \A k \in Range(setup.index.skills) :
            WildcardDependencies(k, setup.dependencies) # {} =>
              k \in Range(SkillsOf(MatchedOf(state')))]_vars

\* the wildcard skill is listed for a dependency whose version is the empty
\* string
C19_Witness ==
  /\ view.step = "list-only"
  /\ \E m \in Range(view.skills) :
       /\ m.dependency.version = VEmpty
       /\ Unparseable(m.dependency.version)
       /\ \E lib \in Range(m.skill.matchingLibraries) :
            lib.name = m.dependency.name /\ lib.versionRange = StarRange

\* the range strings of the model, the one that is no range included
Ranges == {StarRange, RangeGte5, RangeV4, RangeGte3, RangeBad}

\* the dependencies of the list a version can be read from, in list order
WellFormed(dependencies) ==
  SelectSeq(dependencies, LAMBDA d : ~Unparseable(d.version))

\* C20: for a version string no version can be read from and a range other
\* than "*", versionMatches is false; matchSkills with such dependencies ends
\* in Error only when it does without them, and matches the skills it
\* matches without them and those that take the dependency by a "*" range.
C20_MalformedVersionOnlyOmits ==
  [][Matches =>
       LET malformed == {d \in Range(setup.dependencies) : Unparseable(d.version)}
           rest == WellFormed(setup.dependencies)
       IN
       /\ \A d \in malformed, range \in Ranges \ {StarRange} :
            ~versionMatches(d.version, range)
       /\ rest \in DepLists
       /\ state'.step = "error" <=> matchSkillsThrows(setup.index.skills)
       /\ ~matchSkillsThrows(setup.index.skills) =>
            \A k \in Range(setup.index.skills) :
              k \in Range(SkillsOf(MatchedOf(state')))
                <=> \/ k \in Range(SkillsOf(MatchedSkills[rest, setup.index.skills]))
                    \/ WildcardDependencies(k, setup.dependencies) \cap malformed # {}]_vars

\* a skill is listed with the dependency of its second library because the
\* dependency of its first library, whose range is not "*", has a version
\* that cannot be read; that dependency is listed with another skill
C20_Witness ==
  /\ view.step = "list-only"
  /\ \E m, n \in Range(view.skills) :
       /\ Unparseable(m.dependency.version)
       /\ n.skill.matchingLibraries[1].name = m.dependency.name
       /\ n.skill.matchingLibraries[1].versionRange # StarRange
       /\ n.dependency.name # m.dependency.name

\* the skill requires one library, of this name and range
RequiresOnly(skill, name, range) ==
  /\ ~notIterable(skill)
  /\ skill.matchingLibraries = <<[name |-> name, versionRange |-> range]>>

\* C21: with the skills for rq ">=4.0.0 <5.0.0" and rq ">=5.0.0" both in the
\* index, no version of an rq dependency is in both ranges, the two skills are
\* never matched with the same version, and when rq is at 5.2.0 the second
\* skill is matched and the first is not.
C21_DisjointRangesMatchAtMostOne ==
  [][(Matches /\ ~matchSkillsThrows(setup.index.skills)) =>
       \A a, b \in Range(setup.index.skills) :
         (RequiresOnly(a, "rq", RangeV4) /\ RequiresOnly(b, "rq", RangeGte5)) =>
           LET matched == MatchedOf(state')
               rq == {d \in Range(setup.dependencies) : d.name = "rq"}
           IN
           /\ \A d \in rq : ~(/\ versionMatches(d.version, RangeV4)
                               /\ versionMatches(d.version, RangeGte5))
           /\ \A m, n \in Range(matched) :
                (m.skill = a /\ n.skill = b) =>
                  m.dependency.version # n.dependency.version
           /\ (rq # {} /\ \A d \in rq : d.version = V520) =>
                /\ b \in Range(SkillsOf(matched))
                /\ a \notin Range(SkillsOf(matched))]_vars

\* both skills are listed, the one for ">=5.0.0" with rq 5.2.0 and the other
\* with the rq 4.1.0 of devDependencies
C21_Witness ==
  /\ view.step = "list-only"
  /\ \E m, n \in Range(view.skills) :
       /\ RequiresOnly(m.skill, "rq", RangeV4)
       /\ RequiresOnly(n.skill, "rq", RangeGte5)
       /\ m.dependency.version = V410
       /\ n.dependency.version = V520

\* the declarations of a package.json, of both sections
Declarations(packageJson) ==
  Range(packageJson.dependencies) \cup Range(packageJson.devDependencies)

\* the declaration starts with a range prefix
HasRangePrefix(version) == version # <<>> /\ Head(version) \in RangePrefixChars

\* the version the string coerces to is in the range
CoercedSatisfies(version, range) ==
  coerce(version).valid /\ satisfies(format(coerce(version)), range)

\* C22: for a dependency declared with a range prefix, versionMatches on the
\* declaration is true for every range the coerced version satisfies (the raw
\* string decides only when the coerced version does not satisfy), the parser
\* hands the matcher the coerced major.minor.patch, and every skill of the
\* index that requires the library in such a range is matched.
C22_PrefixedDeclarationMatchesByCoercion ==
  [][(Matches /\ ~matchSkillsThrows(setup.index.skills)) =>
       \A packageJson \in Manifests :
         npmParse(packageJson) = setup.dependencies =>
           \A e \in Declarations(packageJson) :
             HasRangePrefix(e.version) =>
               /\ normalizeVersion(e.version) = format(coerce(e.version))
               /\ \A range \in Ranges :
                    /\ CoercedSatisfies(e.version, range)
                         => versionMatches(e.version, range)
                    /\ (range # StarRange /\ ~CoercedSatisfies(e.version, range))
                         => (versionMatches(e.version, range)
                               <=> satisfies(e.version, range))
               /\ \A k \in Range(setup.index.skills) :
                    (\E lib \in Range(k.matchingLibraries) :
                       /\ lib.name = e.name
                       /\ CoercedSatisfies(e.version, lib.versionRange))
                      => k \in Range(SkillsOf(MatchedOf(state')))]_vars

\* a skill that requires zod ">=3.0.0" is listed with the zod dependency at
\* 3.2.1, which every package.json of the model declares as "^3.2.1"
C22_Witness ==
  /\ view.step = "list-only"
  /\ \E m \in Range(view.skills) :
       /\ m.dependency.name = "zod"
       /\ m.dependency.version = V321
       /\ \E lib \in Range(m.skill.matchingLibraries) :
            lib.name = "zod" /\ lib.versionRange = RangeGte3
  /\ \A packageJson \in Manifests : \A e \in Declarations(packageJson) :
       (e.name = "zod" /\ normalizeVersion(e.version) = V321) => e.version = Caret321

(* ---------------- detectTargets ---------------- *)

\* runSetup calls detectTargets in this step
DetectsTargets == Matches /\ state'.step \in {"selecting", "installing"}

\* the list holds the .cursor target and then the .claude target, each with
\* its path under the project directory
FixedTargets(targets) ==
  /\ Len(targets) = 2
  /\ targets[1].type = "cursor"
  /\ targets[1].path = ProjectDirectory \o <<".cursor", "skills">>
  /\ targets[2].type = "claude"
  /\ targets[2].path = ProjectDirectory \o <<".claude", "skills">>

\* the flags of the list say which of .cursor and .claude exist in f
FlagsTell(targets, f) ==
  /\ targets[1].detected = exists(f, ProjectDirectory \o <<".cursor">>)
  /\ targets[2].detected = exists(f, ProjectDirectory \o <<".claude">>)

\* C23: detectTargets returns the .cursor target and the .claude target, in
\* that order and with the same paths, on every filesystem the run reaches;
\* the targets runSetup obtains are these two whichever of the directories
\* exist, the detected flags alone telling which do.
C23_TargetsAreFixed ==
  /\ [](/\ FixedTargets(detectTargets(fs, ProjectDirectory))
        /\ FlagsTell(detectTargets(fs, ProjectDirectory), fs))
  /\ [][DetectsTargets =>
          /\ FixedTargets(state'.targets)
          /\ FlagsTell(state'.targets, fs)]_vars

\* the selection is on screen for both targets though only the second one's
\* directory exists
C23_Witness ==
  /\ view.step = "selecting"
  /\ FixedTargets(view.targets)
  /\ ~view.targets[1].detected
  /\ view.targets[2].detected

\* the calls the step adds to the record
NewCalls == SubSeq(calls', Len(calls) + 1, Len(calls'))

\* C24: the step in which runSetup calls detectTargets leaves the filesystem
\* as it was and makes only existence checks; a step changes the filesystem
\* only when it is a call of installSkill made by performInstallation while
\* the state is Installing.
C24_DetectTargetsOnlyProbes ==
  [][/\ DetectsTargets =>
          /\ fs' = fs
          /\ NewCalls # <<>>
          /\ \A c \in Range(NewCalls) : c.op = "access"
     /\ fs' # fs =>
          /\ state.step = "installing"
          /\ inst.pc = "install"
          /\ \E c \in Range(NewCalls) : c.op = "mkdir" /\ c.ok]_vars

\* detectTargets has probed a project without .cursor and .claude, the
\* selection is on screen and the project still has neither directory
C24_Witness ==
  /\ view.step = "selecting"
  /\ \E c \in Range(calls) : c.op = "access"
  /\ \A t \in Range(view.targets) : ~t.detected
  /\ fs.dirs = {ProjectDirectory}
  /\ DOMAIN fs.files = {}

(* ---------------- the steps of a run ---------------- *)

\* the steps a run may be in: Scanning, Fetching, NoDependencyParser,
\* NoMatches, ListOnly, Selecting, Installing, Done and Error
DeclaredSteps ==
  {"parsing", "fetching", "no-packages", "no-skills", "list-only",
   "selecting", "installing", "done", "error"}

\* the changes of step the graph allows
DeclaredEdges ==
  {<<"parsing", t>> : t \in {"no-packages", "fetching", "error"}}
    \cup {<<"fetching", t>> :
            t \in {"no-skills", "list-only", "selecting", "installing", "error"}}
    \cup {<<"selecting", t>> : t \in {"installing", "done"}}
    \cup {<<"installing", t>> : t \in {"done", "error"}}

\* C25: the run starts in Scanning, is always in one of the declared steps,
\* every change of step is an edge of the declared graph, and the state is
\* never replaced by another state of the same step.
C25_TransitionsFollowTheGraph ==
  /\ state.step = "parsing"
  /\ [](state.step \in DeclaredSteps)
  /\ [][/\ state'.step # state.step =>
             <<state.step, state'.step>> \in DeclaredEdges
        /\ state'.step = state.step => state' = state]_vars

\* a run that went from Scanning through Fetching, Selecting and Installing
\* to Done, with a skill fetched
C25_Witness ==
  /\ state.step = "done"
  /\ view.step = "done"
  /\ submits = 1
  /\ \E c \in Range(calls) : c.op = "fetchSkillContent" /\ c.ok

\* the step ends the run: Done, Error, NoDependencyParser, NoMatches, ListOnly
Ended == state.step \in RestingSteps

\* a call of the transport or a call that changes the filesystem
IsTransportOrWrite(c) ==
  c.op \in {"fetchIndex", "fetchSkillContent", "mkdir", "writeFile"}

\* C26: once the state is Done, Error, NoDependencyParser, NoMatches or
\* ListOnly, no step (a key press, a render, the return of an awaited call)
\* changes the state or the filesystem, fetches or writes.
C26_EndStatesAreAbsorbing ==
  [][Ended =>
       /\ state' = state
       /\ fs' = fs
       /\ inst' = inst
       /\ setup' = setup
       /\ \A c \in Range(NewCalls) : ~IsTransportOrWrite(c)]_vars

\* Enter was pressed with nothing selected, which set Done, and pressed again
\* before the widget was taken off the screen: the state is still that Done
C26_Witness ==
  /\ state = [step |-> "done", count |-> 0, installedFiles |-> <<>>]
  /\ view.step = "selecting"
  /\ submits = 2
  /\ \A c \in Range(calls) : ~IsInstallCall(c)

(* ---------------- the selection widget ---------------- *)

\* the render that puts MultiSelectCheckbox on the screen
WidgetOpens == view.step # "selecting" /\ view'.step = "selecting"

\* the step is a call of onSubmit by the key handler
Submits == submits' = submits + 1

\* the state all-mode sets for these matches and targets
AllModeState(skills, targets) ==
  setupOutcome([all |-> TRUE, list |-> FALSE], skills, targets)

\* C27: when the widget opens, every match is selected and the cursor is on
\* the first; Enter with no entry toggled submits every match in the order
\* of the match set, and the state it sets is the Installing state all-mode
\* sets for the same matches and targets.
C27_OpensWithAllSelected ==
  [][/\ WidgetOpens =>
          /\ widget'.selected = itemIndexes(state.skills)
          /\ widget'.cursor = 0
          /\ closure' = widget'
     /\ (/\ Submits
         /\ widget.selected = itemIndexes(view.skills)
         /\ closure.selected = itemIndexes(view.skills)) =>
          /\ calls'[Len(calls')].selected = view.skills
          /\ state' = AllModeState(view.skills, view.targets)
          /\ state'.step = "installing"]_vars

\* Enter was pressed once on a list of two matches and both are being
\* installed
C27_Witness ==
  /\ Interactive
  /\ state.step = "installing"
  /\ view.step = "selecting"
  /\ submits = 1
  /\ Len(state.selectedSkills) = 2
  /\ state.selectedSkills = view.skills

\* the step is a Space handled by the key handler
Toggles == widget # null /\ widget' # null /\ widget'.selected # widget.selected

\* C28: a Space toggles the entry the arrow keys handled before it moved the
\* cursor to, and Enter submits exactly the selection that the Space toggles
\* handled before it left, also when the keys are handled before the
\* component re-renders.
C28_SubmitsTheLatestSelection ==
  [][/\ Toggles => widget'.selected = toggle(widget.selected, widget.cursor)
     /\ Submits =>
          calls'[Len(calls')].selected
            = filterSelected(view.skills, widget.selected, 0)]_vars

(* ---------------- the installation effect ---------------- *)

\* performInstallation has been called
InstallationStarted == inst.pc # "idle"

\* C29: performInstallation is called at most once in a run: it is called
\* from the Installing state with the skills and targets of that state, and
\* once called it is never called again, whatever is confirmed or rendered
\* afterwards; so no skill is fetched more often than it was selected.
C29_InstallationStartsOnce ==
  /\ [][/\ (~InstallationStarted /\ inst' # inst) =>
             /\ state.step = "installing"
             /\ inst'.match = 1
             /\ inst'.selectedSkills = state.selectedSkills
             /\ inst'.targets = state.targets
        /\ InstallationStarted =>
             /\ inst'.pc # "idle"
             /\ inst'.selectedSkills = inst.selectedSkills
             /\ inst'.targets = inst.targets
             /\ inst'.match >= inst.match]_vars
  /\ [](Cardinality(FetchPositions)
          <= (IF InstallationStarted THEN Len(inst.selectedSkills) ELSE 0))

\* Enter was pressed twice before the widget left the screen; the one
\* installation pass that followed has fetched each selected skill once and
\* has returned
C29_Witness ==
  /\ submits = 2
  /\ state.step = "done"
  /\ inst.pc = "returned"
  /\ Len(inst.selectedSkills) = 2
  /\ Cardinality(FetchPositions) = 2

(* ---------------- the transport ---------------- *)

\* the transport operations awaited at this moment: runSetup's fetchIndex
\* and performInstallation's fetchSkillContent
InFlight ==
  (IF setup.pc = "fetchIndex" THEN 1 ELSE 0) + (IF inst.pc = "fetch" THEN 1 ELSE 0)

\* the n-th content fetch and the writes that follow it are over: the fetch
\* or a filesystem call failed, or the skill's file was written to every
\* target
SkillFinished(n) ==
  \/ \E c \in Range(SkillCalls(n)) : ~c.ok
  \/ \A t \in DOMAIN inst.targets :
       \E c \in Range(SkillCalls(n)) :
         /\ c.op = "writeFile"
         /\ c.ok
         /\ c.path = skillFilePath(inst.selectedSkills[n].skill, inst.targets[t])

\* C30: at most one transport operation is awaited at a time; the index
\* fetch has returned, and is recorded, before the first content fetch; and
\* while the content fetch of a skill is awaited, the fetch and the writes of
\* every skill before it have finished or failed.
C30_OneTransportOperationAtATime ==
  /\ InFlight <= 1
  /\ InstallationStarted => setup.pc = "returned"
  /\ \A p \in FetchPositions :
       \E q \in 1..(p - 1) : calls[q].op = "fetchIndex" /\ calls[q].ok
  /\ inst.pc = "fetch" =>
       /\ Cardinality(FetchPositions) = inst.match - 1
       /\ \A n \in 1..(inst.match - 1) : SkillFinished(n)

\* the content of the second skill is being fetched after the first was
\* fetched and written to both targets
C30_Witness ==
  /\ inst.pc = "fetch"
  /\ inst.match = 2
  /\ Installed(1)
  /\ Len(WrittenPaths(1)) = 2

(* ---------------- the report of Done ---------------- *)

\* the paths whose writeFile succeeded during the run
SuccessfullyWritten == {c.path : c \in {d \in Range(calls) : d.op = "writeFile" /\ d.ok}}

\* C31: in Done, a path is in the written-paths list exactly when a write to
\* it succeeded during the run, and the listed paths are exactly the files
\* the run added to the project; a failed fetch or a failed write lists
\* nothing.
C31_ListedIffWritten ==
  state.step = "done" =>
    /\ Range(state.installedFiles) = SuccessfullyWritten
    /\ Range(state.installedFiles) = DOMAIN fs.files
    /\ \A c \in Range(calls) :
         (c.op = "writeFile" /\ ~c.ok /\ c.path \in Range(state.installedFiles))
           => \E d \in Range(calls) : d.op = "writeFile" /\ d.ok /\ d.path = c.path

\* Done after a write that succeeded, a write that failed and a fetch that
\* failed: one path is listed
C31_Witness ==
  /\ state.step = "done"
  /\ Len(state.installedFiles) = 1
  /\ \E c \in Range(calls) : c.op = "writeFile" /\ ~c.ok
  /\ \E c \in Range(calls) : c.op = "fetchSkillContent" /\ ~c.ok

(* ---------------- the error shown for the registry ---------------- *)

\* what the operator is shown about a failed run, each text as the parts it
\* is put together from: the message of the Error view of the Ink CLI, the
\* lines printed by the prompt CLI
Surfaced ==
  (IF state.step = "error" THEN {<<"Error:", state.message>>} ELSE {})
    \cup Range(console)

\* one part of the text is the registry URL
CarriesUrl(text) == \E n \in DOMAIN text : text[n] = RegistryUrl

\* C32: when the index fetch failed, what the operator is shown carries the
\* registry URL that was tried.
C32_RegistryErrorCarriesUrl ==
  IndexFetchFailed => \E text \in Surfaced : CarriesUrl(text)

(* ---------------- the outcome of runSetup ---------------- *)

\* the skills of the index that some dependency satisfies, in index order
Matching(dependencies, skills) ==
  SelectSeq(skills, LAMBDA k : HasSatisfyingDependency(k, dependencies))

\* the step the precedence gives: no matches, then --list, then --all, then
\* the selection
StepByPrecedence(opts, matching) ==
  IF matching = <<>> THEN "no-skills"
  ELSE IF opts.list THEN "list-only"
  ELSE IF opts.all THEN "installing"
  ELSE "selecting"

\* C33: after a successful index fetch the step is decided in this order: no
\* skill matches, then NoMatches whatever the flags; else --list, then
\* ListOnly even with --all; else --all, then Installing; else Selecting.
\* The targets are probed in the last two cases and in no other.
C33_OutcomeByPrecedence ==
  [][Matches =>
       /\ state'.step
            = StepByPrecedence(options,
                               Matching(setup.dependencies, setup.index.skills))
       /\ (\E c \in Range(NewCalls) : c.op = "access")
            <=> state'.step \in {"installing", "selecting"}]_vars

(* ---------------- the cursor and the checkboxes ---------------- *)

\* the 0-based indexes of the items on screen
OnScreen == itemIndexes(view.skills)

\* C34: while the widget is mounted its item list is not empty and the
\* cursor, as the handler holds it and as the key events left it, is the
\* index of an item; an up-arrow with the cursor on the first item and a
\* down-arrow with the cursor on the last item leave it where it is.
C34_CursorStaysOnAnItem ==
  /\ [](widget # null =>
          /\ OnScreen # {}
          /\ widget.cursor \in OnScreen
          /\ closure # null => closure.cursor \in OnScreen)
  /\ [][/\ (KeyUp /\ widget.cursor = 0) => widget'.cursor = 0
        /\ (KeyDown /\ widget.cursor = Len(view.skills) - 1)
             => widget'.cursor = widget.cursor]_vars

\* the cursor was moved to the last of two items and rendered there
C34_Witness ==
  /\ widget # null
  /\ Len(view.skills) = 2
  /\ widget.cursor = 1
  /\ closure = widget

\* the step is an arrow key handled by the key handler
MovesCursor == widget # null /\ widget' # null /\ widget'.cursor # widget.cursor

\* C35: a Space changes the checkbox of the item the cursor is drawn on (the
\* cursor of the render the key handler belongs to) and of no other item,
\* and leaves the cursor where it is; an arrow key changes no checkbox; the
\* updater applied twice to the same item gives the selection back.
C35_SpaceTogglesOneItem ==
  /\ [][/\ Toggles =>
             /\ widget'.cursor = widget.cursor
             /\ \A index \in OnScreen :
                  (index \in widget'.selected) = (index \in widget.selected)
                    <=> index # closure.cursor
        /\ MovesCursor => widget'.selected = widget.selected]_vars
  /\ [](widget # null =>
          \A prev \in SUBSET OnScreen : \A cursor \in OnScreen :
            toggle(toggle(prev, cursor), cursor) = prev)

\* two items on screen, the first deselected by a Space, the second still
\* selected, the cursor still on the first
C35_Witness ==
  /\ widget # null
  /\ Len(view.skills) = 2
  /\ widget.selected = {1}
  /\ widget.cursor = 0
  /\ closure = widget

(* ---------------- the submitted list ---------------- *)

\* the paths of the content fetches made so far, in the order of the calls
FetchedPaths ==
  [n \in 1..Cardinality(FetchPositions) |-> calls[NthFetch(n)].path]

\* C36: the list Enter submits is the match set on screen with some entries
\* left out (index order, no entry twice), and a non-empty list is what the
\* Installing state carries. In an interactive run performInstallation works
\* on a submitted list, and the contents are fetched in the order of the list
\* it works on.
C36_SubmittedInIndexOrder ==
  /\ [][Submits =>
          LET list == calls'[Len(calls')].selected IN
          /\ IsSubsequence(list, view.skills)
          /\ \A m, n \in DOMAIN list : m # n => list[m] # list[n]
          /\ list # <<>> =>
               state'.step = "installing" /\ state'.selectedSkills = list]_vars
  /\ [](InstallationStarted =>
          /\ Interactive =>
               \E c \in Range(calls) :
                 c.op = "onSubmit" /\ c.selected = inst.selectedSkills
          /\ Len(FetchedPaths) <= Len(inst.selectedSkills)
          /\ \A n \in DOMAIN FetchedPaths :
               FetchedPaths[n] = inst.selectedSkills[n].skill.path)

\* of two matches on screen the operator deselected the first and confirmed
C36_Witness ==
  /\ view.step = "selecting"
  /\ Len(view.skills) = 2
  /\ state.step = "installing"
  /\ state.selectedSkills = <<view.skills[2]>>

(* ---------------- where installSkill writes ---------------- *)

\* C37: every path a call of installSkill returns, and every file on disk
\* after it, lies inside the path of the target the call was given, whatever
\* the id of the skill.
C37_WritesInsideTheTarget ==
  \A n \in DOMAIN calls :
    /\ \A p \in Range(calls[n].returned) : StrictlyInside(calls[n].target, p)
    /\ \A p \in DOMAIN calls[n].after.files :
         \E target \in TargetPaths : StrictlyInside(target, p)

(* ---------------- what installation touches ---------------- *)

\* the matches on screen whose checkbox is off
Deselected == {view.skills[index + 1] : index \in OnScreen \ widget.selected}

\* the files and directories installation may touch for these skills
DestinationFiles(selectedSkills, targets) ==
  {skillFilePath(k.skill, t) : k \in Range(selectedSkills), t \in Range(targets)}

DestinationDirectories(selectedSkills, targets) ==
  {skillDirectory(k.skill, t) : k \in Range(selectedSkills), t \in Range(targets)}

\* C38: no match whose checkbox is off when Enter is handled is in the
\* confirmed list; before installation starts nothing is fetched or written,
\* and once it has started every content fetch is for a skill of the list it
\* works on, every directory made and file written is the destination of
\* such a skill in one of the targets, and no other file is on disk.
C38_OnlyTheConfirmedSubset ==
  /\ [][Submits =>
          \A k \in Deselected : k \notin Range(calls'[Len(calls')].selected)]_vars
  /\ [](IF ~InstallationStarted
        THEN NoFsChange /\ FetchPositions = {}
        ELSE /\ \A c \in Range(calls) :
                  /\ c.op = "fetchSkillContent" =>
                       \E k \in Range(inst.selectedSkills) : c.path = k.skill.path
                  /\ c.op = "writeFile" =>
                       c.path \in DestinationFiles(inst.selectedSkills, inst.targets)
                  /\ c.op = "mkdir" =>
                       c.path \in DestinationDirectories(inst.selectedSkills,
                                                         inst.targets)
             /\ DOMAIN fs.files
                  \subseteq DestinationFiles(inst.selectedSkills, inst.targets))

(* ---------------- every run ends ---------------- *)

\* C39: when every awaited call settles and the operator confirms the
\* selection rather than cancelling it, the run, which starts in Parsing,
\* reaches NoPackages, NoSkills, ListOnly, Done or Error, so it does not stay
\* in Parsing, Fetching or Installing; a parse that throws ends it in Error
\* at once.
C39_EveryRunEnds ==
  /\ state.step = "parsing"
  /\ <>(state.step \in RestingSteps \/ CancelledInSelecting)
  /\ [][(\E c \in Range(NewCalls) : c.op = "parse" /\ ~c.ok)
          => state'.step = "error"]_vars

\* the operator confirmed, a fetch failed, and the run is in Done on screen
C39_Witness ==
  /\ state.step = "done"
  /\ view = state
  /\ InstallationReturned
  /\ \E c \in Range(calls) : c.op = "onSubmit"
  /\ \E c \in Range(calls) : c.op = "fetchSkillContent" /\ ~c.ok

(* ---------------- the numbers Done carries ---------------- *)

\* C40: Done reached without an installation carries count 0 and no path;
\* Done set by performInstallation carries a count that is at most the
\* number of selected skills, for every skill counted (fetched and written
\* with no failure) a written path in every target, and so at least count
\* times the number of targets paths.
C40_CountWithinSelectedAndPaths ==
  state.step = "done" =>
    IF ~InstallationReturned
    THEN state.count = 0 /\ state.installedFiles = <<>>
    ELSE /\ state.count <= Len(inst.selectedSkills)
         /\ state.count = InstalledCount
         /\ \A n \in Selected :
              Installed(n) =>
                \A t \in DOMAIN inst.targets :
                  LET path == skillFilePath(inst.selectedSkills[n].skill,
                                            inst.targets[t]) IN
                  /\ path \in Range(WrittenPaths(n))
                  /\ path \in Range(state.installedFiles)
         /\ Len(state.installedFiles) >= state.count * Len(inst.targets)

\* two skills selected for two targets: one is counted, the other failed
\* after its first target was written, so three paths are listed
C40_Witness ==
  /\ state.step = "done"
  /\ InstallationReturned
  /\ Len(inst.selectedSkills) = 2
  /\ Len(inst.targets) = 2
  /\ state.count = 1
  /\ Len(state.installedFiles) = 3

====
